---- MODULE Spec2Model ----
(***************************************************************************)
(* Model of media_checker.py: the checkpoint-sampling probe                *)
(* (analyze_video), the progress record (save_progress / load_progress),   *)
(* file discovery (get_video_files) and the scan loop (main).              *)
(*                                                                         *)
(* Text is modelled as a sequence of tokens.  A token is one character     *)
(* ("a", " ", "\n", "/") or a file-name suffix kept whole (".mp4").  A     *)
(* path, a line and the content of a file are token sequences.             *)
(***************************************************************************)
EXTENDS Integers, Sequences, FiniteSets, TLC

\* ------------------------------------------------------------------ bounds
\* Largest number of entries of the scanned directory.
MaxFiles == 2
\* The clock (datetime.now(), in seconds) takes the values 0..MaxTime.
MaxTime == 1
\* Number of times the program is started.
MaxRuns == 2
\* Largest frame count a video reports in the whole-run specification.
RunFrames == 1
\* Largest frame count a video reports in the single-probe specification.
MaxFrames == 6
\* Largest frame count a video reports in the long-video specification.
MaxLongFrames == 90
\* Largest number of paths in a set handed to save_progress in the
\* round-trip specification.
MaxPaths == 3

\* ------------------------------------------------------- program constants
\* range(0, 20) and i/20.
NumPoints == 20
\* min(5, total_frames) and total_frames-5.
EdgeWindow == 5
\* point-2.
Before == 2
\* point+3.
After == 3

\* VIDEO_EXTENSIONS.
VIDEO_EXTENSIONS ==
    { ".mp4", ".avi", ".mov", ".mkv", ".flv", ".wmv", ".webm",
      ".m4v", ".mpeg", ".mpg", ".3gp", ".ts", ".mts", ".m2ts",
      ".vob", ".ogv", ".drc", ".mxf", ".rmvb", ".swf", ".divx" }

\* ------------------------------------------------------------------- text
Range(s) == { s[j] : j \in 1..Len(s) }

Min(a, b) == IF a < b THEN a ELSE b

Max(a, b) == IF a > b THEN a ELSE b

\* The characters str.strip() removes.
Whitespace == { " ", "\n" }

RECURSIVE LStrip(_)
LStrip(s) ==
    IF s # <<>> /\ Head(s) \in Whitespace THEN LStrip(Tail(s)) ELSE s

RECURSIVE RStrip(_)
RStrip(s) ==
    IF s # <<>> /\ s[Len(s)] \in Whitespace
    THEN RStrip(SubSeq(s, 1, Len(s) - 1))
    ELSE s

\* line.strip()
Strip(s) == RStrip(LStrip(s))

\* Iterating over a text file: the lines of the content, each with its
\* terminating "\n" (the last one without, when the content does not end
\* with "\n").  `cur` is the line being collected.
RECURSIVE SplitLines(_, _)
SplitLines(c, cur) ==
    IF c = <<>> THEN (IF cur = <<>> THEN <<>> ELSE <<cur>>)
    ELSE IF Head(c) = "\n"
         THEN <<Append(cur, "\n")>> \o SplitLines(Tail(c), <<>>)
         ELSE SplitLines(Tail(c), Append(cur, Head(c)))

\* str.lower() on a token: the only upper-case token of the model.
Lower(tok) == IF tok = ".MKV" THEN ".mkv" ELSE tok

\* The sequences that list the members of S, each once, in some order
\* (the iteration order of a Python set is not fixed).
RECURSIVE Orderings(_)
Orderings(S) ==
    IF S = {} THEN { <<>> }
    ELSE UNION { { <<x>> \o o : o \in Orderings(S \ {x}) } : x \in S }

\* The members of a set of integers in ascending order (list.sort()).
RECURSIVE SortedSeq(_)
SortedSeq(S) ==
    IF S = {} THEN <<>>
    ELSE LET m == CHOOSE x \in S : \A y \in S : x <= y
         IN  <<m>> \o SortedSeq(S \ {m})

\* range(lo, hi) as a sequence.
PyRange(lo, hi) == [ j \in 1..Max(hi - lo, 0) |-> lo + j - 1 ]

\* ---------------------------------------------------------------- files
\* A file of the disk: absent, or present with its content.
NoFile == [ exists |-> FALSE, data |-> <<>> ]

FileOf(d) == [ exists |-> TRUE, data |-> d ]

\* The directory given on the command line (args.directory).
Directory == << "d" >>

\* The file names the scanned directory can hold, in the order os.walk
\* lists them: two videos, a video whose name holds a newline, a text file.
Universe ==
    << << "a", ".mp4" >>,
       << "n", "\n", "x", ".avi" >>,
       << "b", ".MKV" >>,
       << "t", ".txt" >> >>

\* The directories of at most MaxFiles entries: the sub-sequences of Universe.
RECURSIVE SubSeqs(_)
SubSeqs(s) ==
    IF s = <<>> THEN { <<>> }
    ELSE LET rest == SubSeqs(Tail(s))
         IN  rest \cup { <<Head(s)>> \o r : r \in rest }

Trees ==
    { [ exists |-> TRUE, files |-> fs ] :
          fs \in { r \in SubSeqs(Universe) : Len(r) <= MaxFiles } }
    \cup { [ exists |-> FALSE, files |-> <<>> ] }

\* ------------------------------------------------------------ discovery
\* any(file.lower().endswith(ext) for ext in VIDEO_EXTENSIONS): the suffix
\* is the last token of the name.
IsVideo(file) == file # <<>> /\ Lower(file[Len(file)]) \in VIDEO_EXTENSIONS

\* os.path.join(root, file)
JoinPath(root, file) == root \o << "/" >> \o file

\* get_video_files(directory): os.walk ignores the error of a root that
\* does not exist or is not a directory and yields nothing.
get_video_files(t) ==
    IF ~t.exists THEN <<>>
    ELSE LET vids == SelectSeq(t.files, IsVideo)
         IN  [ j \in 1..Len(vids) |-> JoinPath(Directory, vids[j]) ]

\* ------------------------------------------------------- progress record
\* What save_progress writes for the paths in the order given: each path
\* followed by "\n".
RECURSIVE ProgressContent(_)
ProgressContent(order) ==
    IF order = <<>> THEN <<>>
    ELSE Head(order) \o << "\n" >> \o ProgressContent(Tail(order))

\* load_progress(progress_file), on the file itself.
load_progress(f) ==
    IF f.exists
    THEN { Strip(l) : l \in Range(SplitLines(f.data, <<>>)) }
    ELSE {}

\* ----------------------------------------------------------- checkpoints
\* The pairs (total_frames, i), total_frames < 400, for which the double
\* total_frames * (i/20) lies just below the integer total_frames*i/20, so
\* that int() yields one less (IEEE-754 binary64, round to nearest even).
FloatShort ==
    { <<90, 14>>, <<170, 14>>, <<180, 7>>, <<180, 14>>, <<330, 14>>,
      <<340, 7>>, <<340, 14>>, <<350, 14>>, <<360, 7>>, <<360, 14>> }

\* int(total_frames * (i/20))
PointAt(tf, i) ==
    ((tf * i) \div NumPoints) - (IF <<tf, i>> \in FloatShort THEN 1 ELSE 0)

\* check_points after list(set(...)) and sort().
CheckPoints(tf) == SortedSeq({ PointAt(tf, i) : i \in 0..(NumPoints - 1) })

\* FramesToCheck with EdgeWindow frames on either side of an inner point.
FramesToCheckWide(point, tf) ==
    IF point = 0 THEN PyRange(0, Min(EdgeWindow, tf))
    ELSE IF point = tf - 1 THEN PyRange(Max(0, tf - EdgeWindow), tf)
    ELSE PyRange(Max(0, point - EdgeWindow), Min(point + EdgeWindow, tf))

\* FramesToCheck without the branch of the last frame.
FramesToCheckNoTail(point, tf) ==
    IF point = 0 THEN PyRange(0, Min(EdgeWindow, tf))
    ELSE PyRange(Max(0, point - Before), Min(point + After, tf))

\* frames_to_check for a checkpoint.
FramesToCheck(point, tf) ==
    IF point = 0 THEN PyRange(0, Min(EdgeWindow, tf))
    ELSE IF point = tf - 1 THEN PyRange(Max(0, tf - EdgeWindow), tf)
    ELSE PyRange(Max(0, point - Before), Min(point + After, tf))

\* --------------------------------------------------------------- backend
\* What cap.read() returns: ret, and the frame (None, an array of size 0,
\* an array with data).
ReadOutcomes ==
    { [ ret |-> TRUE,  frame |-> "data" ],
      [ ret |-> FALSE, frame |-> "None" ],
      [ ret |-> TRUE,  frame |-> "empty" ] }

\* ReadSucceeded with only ret tested.
ReadSucceededRetOnly(r) == r.ret

\* ret and frame is not None and frame.size > 0
ReadSucceeded(r) == r.ret /\ r.frame # "None" /\ r.frame = "data"

\* A video file as the decode backend sees it: whether it opens, the frame
\* count it reports, and what reading frame f (good[f+1]) gives.
NoBackend == [ opens |-> FALSE, frames |-> 0, good |-> <<>> ]

Backends(n) ==
    { NoBackend }
    \cup { [ opens |-> TRUE, frames |-> f, good |-> <<>> ] : f \in {-1, 0} }
    \cup UNION { { [ opens |-> TRUE, frames |-> f, good |-> g ] :
                       g \in [ 1..f -> ReadOutcomes ] } : f \in 1..n }

\* An entry of step_log.
Entry(kind, n, frame, ok) ==
    [ kind |-> kind, n |-> n, frame |-> frame, ok |-> ok ]

\* ----------------------------------------------------------------- state
VARIABLES
    tree,            \* the scanned directory
    progress,        \* the progress files, by the timestamp in their name
    reports,         \* the report files, by the timestamp in their name
    now,             \* the clock
    runs,            \* number of starts so far
    pc,              \* where the process is; "idle" before the first start
    exit_status,     \* -1 while running
    handles,         \* decode handles open in the process
    resume,          \* args.resume
    timestamp,       \* timestamp
    processed_files, \* processed_files
    video_files,     \* video_files
    idx,             \* position of the for loop in video_files (from 1)
    processed_count, \* processed_count
    corrupted_count, \* corrupted_count
    cap,             \* cap: "unbound", "closed" or "open"
    backend,         \* the file being probed, as the backend sees it
    total_frames,    \* total_frames
    check_points,    \* check_points
    ci,              \* position of the checkpoint loop (i+1)
    frames_to_check, \* frames_to_check
    fi,              \* position of the frame loop in frames_to_check
    success,         \* success
    error_type,      \* error_type
    step_log,        \* step_log
    raised,          \* a backend call of this probe raised
    calls,           \* cap.set and cap.read calls of this probe
    loaded,          \* what load_progress returned when this run began
    started,         \* paths analyze_video was called on in this run
    finished,        \* (path, error_type) of the finished loop iterations
    reportBase,      \* length of this run's report file when the run began
    history,         \* (path, error_type) of every probe that returned
    last,            \* how the latest run ended: interrupted, and with
                     \* which persisted processed set
    prior            \* `last` as it was when this run began

fsVars == << tree, progress, reports >>

mainVars ==
    << resume, timestamp, processed_files, video_files, idx,
       processed_count, corrupted_count >>

loopVars == << ci, frames_to_check, fi, success >>

probeVars ==
    << cap, backend, total_frames, check_points, ci, frames_to_check, fi,
       success, error_type, step_log >>

ghostVars == << loaded, started, finished, reportBase, history, last, prior >>

vars ==
    << tree, progress, reports, now, runs, pc, exit_status, handles,
       resume, timestamp, processed_files, video_files, idx,
       processed_count, corrupted_count, cap, backend, total_frames,
       check_points, ci, frames_to_check, fi, success, error_type,
       step_log, raised, calls, loaded, started, finished, reportBase,
       history, last, prior >>

NotInterrupted == [ valid |-> FALSE, P |-> {} ]

\* for video_path in video_files
video_path == video_files[idx]

total_files == Len(video_files)

\* The values the locals of analyze_video have outside a call.
ProbeIdle ==
    /\ cap = "unbound"
    /\ backend = NoBackend
    /\ total_frames = 0
    /\ check_points = <<>>
    /\ ci = 1
    /\ frames_to_check = <<>>
    /\ fi = 1
    /\ success = FALSE
    /\ error_type = 0
    /\ step_log = <<>>
    /\ raised = FALSE
    /\ calls = 0

\* The values the locals of main have outside a run.
MainIdle ==
    /\ resume = FALSE
    /\ timestamp = 0
    /\ processed_files = {}
    /\ video_files = <<>>
    /\ idx = 1
    /\ processed_count = 0
    /\ corrupted_count = 0

Init ==
    /\ tree \in Trees
    /\ progress = [ t \in 0..MaxTime |-> NoFile ]
    /\ reports = [ t \in 0..MaxTime |-> NoFile ]
    /\ now = 0
    /\ runs = 0
    /\ pc = "idle"
    /\ exit_status = -1
    /\ handles = 0
    /\ MainIdle
    /\ ProbeIdle
    /\ loaded = {}
    /\ started = <<>>
    /\ finished = {}
    /\ reportBase = 0
    /\ history = {}
    /\ last = NotInterrupted
    /\ prior = NotInterrupted

\* ------------------------------------------------------------------ main
\* The process is running.
Running ==
    pc \in { "loop", "save", "a_open", "a_count", "a_point", "a_frame",
             "a_after", "a_finally", "record" }

\* The locals of analyze_video go out of scope.
ResetProbe ==
    /\ cap' = "unbound"
    /\ backend' = NoBackend
    /\ total_frames' = 0
    /\ check_points' = <<>>
    /\ ci' = 1
    /\ frames_to_check' = <<>>
    /\ fi' = 1
    /\ success' = FALSE
    /\ error_type' = 0
    /\ step_log' = <<>>
    /\ raised' = FALSE
    /\ calls' = 0

\* The process is gone: its memory and its open handles with it.  The
\* session's timestamp and resume flag are kept for reference.
ProcessGone ==
    /\ handles' = 0
    /\ processed_files' = {}
    /\ video_files' = <<>>
    /\ idx' = 1
    /\ processed_count' = 0
    /\ corrupted_count' = 0
    /\ UNCHANGED << resume, timestamp >>
    /\ ResetProbe

\* main, lines 108-133: the arguments, the timestamp read from the clock
\* (t), the file names, load_progress, get_video_files and the filter.
MainStart(res, t) ==
    /\ pc \in { "idle", "done", "aborted", "killed" }
    /\ runs < MaxRuns
    /\ runs' = runs + 1
    /\ now' = t
    /\ timestamp' = t
    /\ resume' = res
    /\ LET known == load_progress(progress[t])
           found == get_video_files(tree)
           Left(f) == f \notin known
       IN  /\ processed_files' = known
           /\ loaded' = known
           /\ video_files' = IF res THEN SelectSeq(found, Left) ELSE found
    /\ idx' = 1
    /\ processed_count' = 0
    /\ corrupted_count' = 0
    /\ pc' = "loop"
    /\ exit_status' = -1
    /\ started' = <<>>
    /\ finished' = {}
    /\ reportBase' = Len(reports[t].data)
    /\ prior' = last
    /\ UNCHANGED << fsVars, handles, probeVars, raised, calls, history, last >>

\* main, lines 135-138, up to the open(progress_file, 'w') of
\* save_progress, which creates or truncates the file.
MainIterate ==
    /\ pc = "loop"
    /\ idx <= Len(video_files)
    /\ processed_count' = processed_count + 1
    /\ processed_files' = processed_files \cup { video_path }
    /\ progress' = [ progress EXCEPT ![timestamp] = FileOf(<<>>) ]
    /\ pc' = "save"
    /\ UNCHANGED << tree, reports, now, runs, exit_status, handles, resume,
                    timestamp, video_files, idx, corrupted_count, probeVars,
                    raised, calls, ghostVars >>

\* save_progress, lines 96-97 and the close of the file: the paths of
\* processed_files, in the order the set yields them, reach the file.
SaveProgressWrite(order) ==
    /\ pc = "save"
    /\ order \in Orderings(processed_files)
    /\ progress' =
           [ progress EXCEPT ![timestamp] = FileOf(ProgressContent(order)) ]
    /\ pc' = "a_open"
    /\ UNCHANGED << tree, reports, now, runs, exit_status, handles, mainVars,
                    probeVars, raised, calls, ghostVars >>

\* What main appends to the report for a corrupted file (one f.write).
ReportLine(path, e) == [ path |-> path, error |-> e ]

\* MainRecord without the test of error_type: every file gets a line.
MainRecordAlways ==
    /\ pc = "record"
    /\ corrupted_count' = corrupted_count + 1
    /\ reports' =
           [ reports EXCEPT ![timestamp] =
                 FileOf(Append(@.data, ReportLine(video_path, error_type))) ]
    /\ finished' = finished \cup { << video_path, error_type >> }
    /\ idx' = idx + 1
    /\ pc' = "loop"
    /\ ResetProbe
    /\ UNCHANGED << tree, progress, now, runs, exit_status, handles, resume,
                    timestamp, processed_files, video_files, processed_count,
                    loaded, started, reportBase, history, last, prior >>

\* main, lines 146-158, after analyze_video has returned: the report line
\* of a corrupted file; the loop moves on.
MainRecord ==
    /\ pc = "record"
    /\ IF error_type # 0
       THEN /\ corrupted_count' = corrupted_count + 1
            /\ reports' =
                   [ reports EXCEPT ![timestamp] =
                         FileOf(Append(@.data,
                                       ReportLine(video_path, error_type))) ]
       ELSE UNCHANGED << corrupted_count, reports >>
    /\ finished' = finished \cup { << video_path, error_type >> }
    /\ idx' = idx + 1
    /\ pc' = "loop"
    /\ ResetProbe
    /\ UNCHANGED << tree, progress, now, runs, exit_status, handles, resume,
                    timestamp, processed_files, video_files, processed_count,
                    loaded, started, reportBase, history, last, prior >>

\* MainFinish without the removal of the progress file.
MainFinishKeeps ==
    /\ pc = "loop"
    /\ idx > Len(video_files)
    /\ pc' = "done"
    /\ exit_status' = 0
    /\ last' = NotInterrupted
    /\ UNCHANGED << fsVars, now, runs, handles, mainVars, probeVars,
                    raised, calls, loaded, started, finished, reportBase,
                    history, prior >>

\* main, lines 160-166: the loop is over; the progress file is removed,
\* the summary printed, the process exits normally.
MainFinish ==
    /\ pc = "loop"
    /\ idx > Len(video_files)
    /\ progress' =
           IF progress[timestamp].exists
           THEN [ progress EXCEPT ![timestamp] = NoFile ]
           ELSE progress
    /\ pc' = "done"
    /\ exit_status' = 0
    /\ last' = NotInterrupted
    /\ UNCHANGED << tree, reports, now, runs, handles, mainVars, probeVars,
                    raised, calls, loaded, started, finished, reportBase,
                    history, prior >>

\* The process is killed, at any point of a run.
Kill ==
    /\ Running
    /\ pc' = "killed"
    /\ exit_status' = 137
    /\ last' =
           IF progress[timestamp].exists /\ pc # "save"
           THEN [ valid |-> TRUE, P |-> processed_files ]
           ELSE NotInterrupted
    /\ ProcessGone
    /\ UNCHANGED << fsVars, now, runs, loaded, started, finished,
                    reportBase, history, prior >>

\* --------------------------------------------------------- analyze_video
\* except Exception, lines 85-87, entered with the step log as it stands.
Caught(log) ==
    /\ error_type' = 2
    /\ step_log' = Append(log, Entry("exception", 0, 0, FALSE))
    /\ raised' = TRUE
    /\ pc' = "a_finally"

\* cap.release() returns.
Released ==
    /\ cap' = IF cap = "unbound" THEN cap ELSE "closed"
    /\ handles' = IF cap = "open" THEN handles - 1 ELSE handles

\* cap.release() raises: the handle is released or not.
ReleaseRaised ==
    \/ Released
    \/ UNCHANGED << cap, handles >>

\* AnalyzeOpen without the isOpened test: a capture that did not open is
\* used like one that did.
AnalyzeOpenNoCheck(be, exc) ==
    /\ pc = "a_open"
    /\ backend' = be
    /\ calls' = 0
    /\ started' = Append(started, video_path)
    /\ IF exc = "ctor"
       THEN /\ Caught(<<>>)
            /\ UNCHANGED << cap, handles >>
       ELSE /\ cap' = IF be.opens THEN "open" ELSE "closed"
            /\ handles' = IF be.opens THEN handles + 1 ELSE handles
            /\ IF exc = "isOpened"
               THEN Caught(<<>>)
               ELSE /\ raised' = FALSE
                    /\ error_type' = 0
                    /\ step_log' = <<>>
                    /\ pc' = "a_count"
    /\ UNCHANGED << fsVars, now, runs, exit_status, mainVars, total_frames,
                    check_points, loopVars, loaded, finished, reportBase,
                    history, last, prior >>

\* Lines 27-36: error_type and step_log are initialised, the capture is
\* constructed on the file (be), isOpened is asked.
AnalyzeOpen(be, exc) ==
    /\ pc = "a_open"
    /\ backend' = be
    /\ calls' = 0
    /\ started' = Append(started, video_path)
    /\ IF exc = "ctor"
       THEN /\ Caught(<<>>)
            /\ UNCHANGED << cap, handles >>
       ELSE /\ cap' = IF be.opens THEN "open" ELSE "closed"
            /\ handles' = IF be.opens THEN handles + 1 ELSE handles
            /\ IF exc = "isOpened"
               THEN Caught(<<>>)
               ELSE /\ raised' = FALSE
                    /\ IF ~be.opens
                       THEN /\ error_type' = 1
                            /\ step_log' = << Entry("open", 0, 0, FALSE) >>
                            /\ pc' = "a_finally"
                       ELSE /\ error_type' = 0
                            /\ step_log' = <<>>
                            /\ pc' = "a_count"
    /\ UNCHANGED << fsVars, now, runs, exit_status, mainVars, total_frames,
                    check_points, loopVars, loaded, finished, reportBase,
                    history, last, prior >>

\* Lines 38-50: the frame count; a count that is not positive ends the
\* probe, a positive one gives the checkpoints.
AnalyzeCount(exc) ==
    /\ pc = "a_count"
    /\ LET log1 == Append(step_log, Entry("open", 0, 0, TRUE))
           log2 == Append(log1, Entry("count", 0, 0, FALSE))
       IN  IF exc = "get"
           THEN /\ Caught(log1)
                /\ UNCHANGED << cap, handles, total_frames, check_points >>
           ELSE /\ total_frames' = backend.frames
                /\ IF backend.frames <= 0
                   THEN /\ UNCHANGED check_points
                        /\ IF exc = "release"
                           THEN ReleaseRaised /\ Caught(log2)
                           ELSE /\ Released
                                /\ error_type' = 2
                                /\ step_log' = log2
                                /\ pc' = "a_finally"
                                /\ UNCHANGED raised
                   ELSE /\ exc = "none"
                        /\ check_points' = CheckPoints(backend.frames)
                        /\ step_log' = log1
                        /\ pc' = "a_point"
                        /\ UNCHANGED << cap, handles, error_type, raised >>
    /\ UNCHANGED << fsVars, now, runs, exit_status, mainVars, backend,
                    loopVars, calls, ghostVars >>

\* Lines 53-66: the next checkpoint and its frame range; after the last
\* checkpoint the try block is left.
AnalyzePoint ==
    /\ pc = "a_point"
    /\ IF ci > Len(check_points)
       THEN /\ pc' = "a_finally"
            /\ UNCHANGED << frames_to_check, fi, success >>
       ELSE LET range == FramesToCheck(check_points[ci], total_frames)
            IN  /\ frames_to_check' = range
                /\ success' = FALSE
                /\ fi' = 1
                /\ pc' = IF range = <<>> THEN "a_after" ELSE "a_frame"
    /\ UNCHANGED << fsVars, now, runs, exit_status, handles, mainVars, cap,
                    backend, total_frames, check_points, ci, error_type,
                    step_log, raised, calls, ghostVars >>

\* AnalyzeFrame without the break: after a success the frame loop goes on.
AnalyzeFrameNoBreak(exc) ==
    /\ pc = "a_frame"
    /\ LET frame_idx == frames_to_check[fi]
           r == backend.good[frame_idx + 1]
       IN  IF exc = "set"
           THEN /\ calls' = calls + 1
                /\ Caught(step_log)
                /\ UNCHANGED << fi, success >>
           ELSE IF exc = "read"
           THEN /\ calls' = calls + 2
                /\ Caught(step_log)
                /\ UNCHANGED << fi, success >>
           ELSE /\ calls' = calls + 2
                /\ UNCHANGED << error_type, raised >>
                /\ step_log' =
                       Append(step_log,
                              Entry("try", ci, frame_idx, ReadSucceeded(r)))
                /\ success' = (success \/ ReadSucceeded(r))
                /\ fi' = fi + 1
                /\ pc' = IF fi = Len(frames_to_check)
                         THEN "a_after" ELSE "a_frame"
    /\ UNCHANGED << fsVars, now, runs, exit_status, handles, mainVars, cap,
                    backend, total_frames, check_points, ci, frames_to_check,
                    ghostVars >>

\* Lines 67-77: one frame of the range: seek, read, log; a success leaves
\* the frame loop.
AnalyzeFrame(exc) ==
    /\ pc = "a_frame"
    /\ LET frame_idx == frames_to_check[fi]
           r == backend.good[frame_idx + 1]
       IN  IF exc = "set"
           THEN /\ calls' = calls + 1
                /\ Caught(step_log)
                /\ UNCHANGED << fi, success >>
           ELSE IF exc = "read"
           THEN /\ calls' = calls + 2
                /\ Caught(step_log)
                /\ UNCHANGED << fi, success >>
           ELSE /\ calls' = calls + 2
                /\ UNCHANGED << error_type, raised >>
                /\ IF ReadSucceeded(r)
                   THEN /\ step_log' =
                               Append(step_log, Entry("try", ci, frame_idx, TRUE))
                        /\ success' = TRUE
                        /\ pc' = "a_after"
                        /\ UNCHANGED fi
                   ELSE /\ step_log' =
                               Append(step_log, Entry("try", ci, frame_idx, FALSE))
                        /\ fi' = fi + 1
                        /\ pc' = IF fi = Len(frames_to_check)
                                 THEN "a_after" ELSE "a_frame"
                        /\ UNCHANGED success
    /\ UNCHANGED << fsVars, now, runs, exit_status, handles, mainVars, cap,
                    backend, total_frames, check_points, ci, frames_to_check,
                    ghostVars >>

\* AnalyzeAfter without the return: a range without a success is logged and
\* classified, and the checkpoint loop goes on.
AnalyzeAfterGoesOn(exc) ==
    /\ pc = "a_after"
    /\ exc = "none"
    /\ IF ~success
       THEN /\ error_type' = 2
            /\ step_log' =
                   Append(step_log,
                          Entry("window", 0, check_points[ci], FALSE))
       ELSE UNCHANGED << error_type, step_log >>
    /\ ci' = ci + 1
    /\ pc' = "a_point"
    /\ UNCHANGED << fsVars, now, runs, exit_status, handles, mainVars, cap,
                    backend, total_frames, check_points, frames_to_check, fi,
                    success, raised, calls, ghostVars >>

\* Lines 79-83: a range without a success ends the probe; otherwise the
\* checkpoint loop goes on.
AnalyzeAfter(exc) ==
    /\ pc = "a_after"
    /\ IF ~success
       THEN LET log1 == Append(step_log,
                               Entry("window", 0, check_points[ci], FALSE))
            IN  /\ UNCHANGED ci
                /\ IF exc = "release"
                   THEN ReleaseRaised /\ Caught(log1)
                   ELSE /\ Released
                        /\ error_type' = 2
                        /\ step_log' = log1
                        /\ pc' = "a_finally"
                        /\ UNCHANGED raised
       ELSE /\ exc = "none"
            /\ ci' = ci + 1
            /\ pc' = "a_point"
            /\ UNCHANGED << cap, handles, error_type, step_log, raised >>
    /\ UNCHANGED << fsVars, now, runs, exit_status, mainVars, backend,
                    total_frames, check_points, frames_to_check, fi, success,
                    calls, ghostVars >>

\* AnalyzeFinally without the release of the capture.
AnalyzeFinallyNoRelease(exc) ==
    /\ pc = "a_finally"
    /\ exc = "none"
    /\ pc' = "record"
    /\ history' = history \cup { << video_path, error_type >> }
    /\ UNCHANGED << fsVars, now, runs, exit_status, handles, mainVars,
                    probeVars, raised, calls, loaded, started, finished,
                    reportBase, last, prior >>

\* Lines 88-91: finally releases the capture and the function returns
\* (error_type, step_log).  With cap unbound (the constructor raised) the
\* name lookup raises; that exception, like one release raises here, leaves
\* analyze_video and, uncaught in main, ends the process.
AnalyzeFinally(exc) ==
    /\ pc = "a_finally"
    /\ IF cap = "unbound" \/ exc = "release"
       THEN /\ pc' = "aborted"
            /\ exit_status' = 1
            /\ last' = NotInterrupted
            /\ ProcessGone
            /\ UNCHANGED history
       ELSE /\ Released
            /\ pc' = "record"
            /\ history' = history \cup { << video_path, error_type >> }
            /\ UNCHANGED << exit_status, last, mainVars, backend,
                            total_frames, check_points, loopVars, error_type,
                            step_log, raised, calls >>
    /\ UNCHANGED << fsVars, now, runs, loaded, started, finished, reportBase,
                    prior >>

\* ------------------------------------------------------- specifications
\* The steps of analyze_video on a file drawn from Backends(n).
ProbeStep(n) ==
    \/ /\ pc = "a_open"
       /\ \E be \in Backends(n), exc \in { "none", "ctor", "isOpened" } :
              AnalyzeOpen(be, exc)
    \/ \E exc \in { "none", "get", "release" } : AnalyzeCount(exc)
    \/ AnalyzePoint
    \/ \E exc \in { "none", "set", "read" } : AnalyzeFrame(exc)
    \/ \E exc \in { "none", "release" } : AnalyzeAfter(exc)
    \/ \E exc \in { "none", "release" } : AnalyzeFinally(exc)

Next ==
    \/ \E res \in BOOLEAN, t \in now..MaxTime : MainStart(res, t)
    \/ MainIterate
    \/ /\ pc = "save"
       /\ \E order \in Orderings(processed_files) : SaveProgressWrite(order)
    \/ ProbeStep(RunFrames)
    \/ MainRecord
    \/ MainFinish
    \/ Kill

\* Runs of the program, one after another, each run to its end or killed.
Spec == Init /\ [][Next]_vars

\* One run of the program, from its start to its end or to a kill.
NextRun ==
    \/ \E res \in BOOLEAN, t \in now..MaxTime : pc = "idle" /\ MainStart(res, t)
    \/ MainIterate
    \/ /\ pc = "save"
       /\ \E order \in Orderings(processed_files) : SaveProgressWrite(order)
    \/ ProbeStep(RunFrames)
    \/ MainRecord
    \/ MainFinish
    \/ Kill

SpecRun == Init /\ [][NextRun]_vars

\* One call of analyze_video, on a video of up to MaxFrames frames: the
\* first run over a directory holding one video has just saved its progress.
ProbePath == JoinPath(Directory, Universe[1])

InitProbe ==
    /\ tree = [ exists |-> TRUE, files |-> << Universe[1] >> ]
    /\ progress =
           [ t \in 0..MaxTime |->
                 IF t = 0 THEN FileOf(ProgressContent(<< ProbePath >>))
                 ELSE NoFile ]
    /\ reports = [ t \in 0..MaxTime |-> NoFile ]
    /\ now = 0
    /\ runs = 1
    /\ pc = "a_open"
    /\ exit_status = -1
    /\ handles = 0
    /\ resume = FALSE
    /\ timestamp = 0
    /\ processed_files = { ProbePath }
    /\ video_files = << ProbePath >>
    /\ idx = 1
    /\ processed_count = 1
    /\ corrupted_count = 0
    /\ ProbeIdle
    /\ loaded = {}
    /\ started = <<>>
    /\ finished = {}
    /\ reportBase = 0
    /\ history = {}
    /\ last = NotInterrupted
    /\ prior = NotInterrupted

NextProbe == ProbeStep(MaxFrames)

SpecProbe == InitProbe /\ [][NextProbe]_vars

\* One call of analyze_video on a long video, of up to MaxLongFrames frames.
\* What reading frame f of such a video gives follows one of a few patterns:
\* every frame decodes, no frame is read, every frame is an empty array,
\* only the last frame of each block of EdgeWindow frames decodes.
FramePatterns == { "all", "none", "empty", "blockEnd" }

PatternRead(pat, f) ==
    IF pat = "all" THEN [ ret |-> TRUE, frame |-> "data" ]
    ELSE IF pat = "none" THEN [ ret |-> FALSE, frame |-> "None" ]
    ELSE IF pat = "empty" THEN [ ret |-> TRUE, frame |-> "empty" ]
    ELSE IF f % EdgeWindow = EdgeWindow - 1
         THEN [ ret |-> TRUE, frame |-> "data" ]
         ELSE [ ret |-> FALSE, frame |-> "None" ]

LongBackends(n) ==
    { [ opens |-> TRUE, frames |-> f,
        good |-> [ j \in 1..f |-> PatternRead(pat, j - 1) ] ] :
          f \in 1..n, pat \in FramePatterns }

NextLong ==
    \/ /\ pc = "a_open"
       /\ \E be \in LongBackends(MaxLongFrames),
             exc \in { "none", "ctor", "isOpened" } : AnalyzeOpen(be, exc)
    \/ \E exc \in { "none", "get", "release" } : AnalyzeCount(exc)
    \/ AnalyzePoint
    \/ \E exc \in { "none", "set", "read" } : AnalyzeFrame(exc)
    \/ \E exc \in { "none", "release" } : AnalyzeAfter(exc)
    \/ \E exc \in { "none", "release" } : AnalyzeFinally(exc)

SpecLong == InitProbe /\ [][NextLong]_vars

\* save_progress and load_progress by themselves, on the progress file of
\* session 0.  The paths a set handed to save_progress can hold: two plain
\* ones, one with a newline in a name, one of a directory whose name begins
\* with a space.
SavedPaths ==
    { JoinPath(Directory, Universe[1]),
      JoinPath(Directory, Universe[2]),
      JoinPath(Directory, Universe[3]),
      JoinPath(<< " ", "d" >>, Universe[1]) }

PathSets == { P \in SUBSET SavedPaths : Cardinality(P) <= MaxPaths }

\* The set to save is in processed_files; the progress file does not exist,
\* or holds what an earlier save left.
InitRoundTrip ==
    /\ tree = [ exists |-> FALSE, files |-> <<>> ]
    /\ \E old \in { NoFile, FileOf(ProgressContent(<< ProbePath >>)) } :
           progress = [ t \in 0..MaxTime |-> IF t = 0 THEN old ELSE NoFile ]
    /\ reports = [ t \in 0..MaxTime |-> NoFile ]
    /\ now = 0
    /\ runs = 0
    /\ pc = "rt_idle"
    /\ exit_status = -1
    /\ handles = 0
    /\ resume = FALSE
    /\ timestamp = 0
    /\ processed_files \in PathSets
    /\ video_files = <<>>
    /\ idx = 1
    /\ processed_count = 0
    /\ corrupted_count = 0
    /\ ProbeIdle
    /\ loaded = {}
    /\ started = <<>>
    /\ finished = {}
    /\ reportBase = 0
    /\ history = {}
    /\ last = NotInterrupted
    /\ prior = NotInterrupted

\* save_progress, line 95: open(progress_file, 'w') creates or truncates.
SaveProgressOpen ==
    /\ pc = "rt_idle"
    /\ progress' = [ progress EXCEPT ![timestamp] = FileOf(<<>>) ]
    /\ pc' = "rt_write"
    /\ UNCHANGED << tree, reports, now, runs, exit_status, handles, mainVars,
                    probeVars, raised, calls, ghostVars >>

\* save_progress, lines 96-97 and the close, by themselves.
SaveProgressLines(order) ==
    /\ pc = "rt_write"
    /\ order \in Orderings(processed_files)
    /\ progress' =
           [ progress EXCEPT ![timestamp] = FileOf(ProgressContent(order)) ]
    /\ pc' = "rt_saved"
    /\ UNCHANGED << tree, reports, now, runs, exit_status, handles, mainVars,
                    probeVars, raised, calls, ghostVars >>

\* load_progress(progress_file), its result kept in `loaded`: called after
\* a save (then pc becomes "rt_back") or on the file as it was found
\* ("rt_read").
LoadProgress ==
    /\ pc \in { "rt_idle", "rt_saved" }
    /\ loaded' = load_progress(progress[timestamp])
    /\ pc' = IF pc = "rt_saved" THEN "rt_back" ELSE "rt_read"
    /\ UNCHANGED << fsVars, now, runs, exit_status, handles, mainVars,
                    probeVars, raised, calls, started, finished, reportBase,
                    history, last, prior >>

NextRoundTrip ==
    \/ SaveProgressOpen
    \/ /\ pc = "rt_write"
       /\ \E order \in Orderings(processed_files) : SaveProgressLines(order)
    \/ LoadProgress

SpecRoundTrip == InitRoundTrip /\ [][NextRoundTrip]_vars

\* ----------------------------------------------------------------- claims
\* The paths of the probes that have returned, in any run.
Completed == { r[1] : r \in history }

\* The candidates of the scanned directory.
Candidates == Range(get_video_files(tree))

\* The content of a progress file holds the line save_progress writes for
\* path p: p and a newline, at the start of the content or after a newline.
HasEntry(data, p) ==
    \E j \in 1..Len(data) :
        /\ j + Len(p) <= Len(data)
        /\ SubSeq(data, j, j + Len(p)) = p \o << "\n" >>
        /\ (j = 1 \/ data[j - 1] = "\n")

\* C1: a run started with --resume after a run of the same directory that
\* was interrupted with the processed set P persisted probes none of P, and
\* by its end it has probed exactly the candidates that are not in P.
C1_ResumeProbesExactlyTheRest ==
    (pc # "idle" /\ resume /\ prior.valid) =>
        /\ Range(started) \cap prior.P = {}
        /\ (pc = "done" => Range(started) = Candidates \ prior.P)

\* C2: between two files of a run (after file k, before file k+1) the
\* progress record read back with load_progress equals the processed set in
\* memory, which is the paths loaded at the start and the first k candidates
\* of the run.
C2_WriteThrough ==
    pc = "loop" =>
        /\ load_progress(progress[timestamp]) = processed_files
        /\ processed_files =
               loaded \cup { video_files[j] : j \in 1..(idx - 1) }

\* C3: a path is in the processed set, in memory or in a progress record,
\* only after its probe has returned a classification.
C3_MarkedOnlyAfterProbe ==
    /\ (Running => processed_files \subseteq loaded \cup Completed)
    /\ \A t \in 0..MaxTime :
           \A p \in Candidates :
               HasEntry(progress[t].data, p) => p \in Completed

\* C4: after a kill, every file whose loop iteration had finished has its
\* entry in the progress record of the run and, when its classification
\* was not OK, its line in the report of the run.
C4_KillLosesOnlyInFlight ==
    pc = "killed" =>
        \A r \in finished :
            /\ HasEntry(progress[timestamp].data, r[1])
            /\ (r[2] # 0 =>
                    ReportLine(r[1], r[2]) \in Range(reports[timestamp].data))

\* The lines this run has appended to its report.
RunLines ==
    SubSeq(reports[timestamp].data, reportBase + 1,
           Len(reports[timestamp].data))

\* C5: a report holds a line only for a probe that returned OpenFailure (1)
\* or DecodeFailure (2); the lines a run appends are those of its finished
\* iterations: none for a file classified OK, exactly one for any other.
C5_ReportContent ==
    /\ \A t \in 0..MaxTime :
           \A l \in Range(reports[t].data) :
               l.error \in { 1, 2 } /\ << l.path, l.error >> \in history
    /\ pc # "idle" =>
           /\ \A l \in Range(RunLines) : << l.path, l.error >> \in finished
           /\ \A r \in finished :
                  Cardinality({ j \in 1..Len(RunLines) :
                                    RunLines[j].path = r[1] })
                      = IF r[2] = 0 THEN 0 ELSE 1

\* A run has finished two files, one classified OK and one not.
C5_Witness ==
    /\ pc = "done"
    /\ \E r \in finished : r[2] = 0
    /\ \E r \in finished : r[2] # 0
    /\ Len(RunLines) = 1

\* C6: with a root that does not exist (or is no directory) a started run
\* has aborted with a non-zero exit status, has probed nothing and has
\* created no report and no progress file.
C6_DirectoryFailureFatal ==
    (~tree.exists /\ pc # "idle") =>
        /\ pc = "aborted"
        /\ exit_status # 0
        /\ started = <<>>
        /\ \A t \in 0..MaxTime : ~progress[t].exists /\ ~reports[t].exists

\* C7: no exception leaves analyze_video, and a probe in which a backend
\* call raised returns DecodeFailure (2).
C7_ProbeAlwaysReturns ==
    /\ pc # "aborted"
    /\ (pc = "record" /\ raised) => error_type = 2

\* C8: when analyze_video has returned, its capture is released; no decode
\* handle is open outside a call and never more than one.
C8_HandleReleased ==
    /\ handles <= 1
    /\ pc \in { "idle", "loop", "save", "a_open", "record", "done" } =>
           handles = 0
    /\ pc = "record" => cap = "closed"

\* A probe of a file that opened has returned after a caught exception.
C8_Witness == pc = "record" /\ backend.opens /\ raised /\ idx = 2

\* Reading frame f of the file being probed gives a non-empty frame.
Decodes(f) ==
    LET r == backend.good[f + 1] IN r.ret /\ r.frame = "data"

C10_PreProbeFailures ==
    /\ (pc \in { "a_count", "a_point", "a_frame", "a_after", "a_finally",
                 "record" }
            /\ (~backend.opens \/ backend.frames <= 0)) => calls = 0
    /\ (pc = "record" /\ ~backend.opens /\ ~raised) =>
           /\ error_type = 1
           /\ step_log = << Entry("open", 0, 0, FALSE) >>
    /\ (pc = "record" /\ backend.opens /\ backend.frames <= 0 /\ ~raised) =>
           /\ error_type = 2
           /\ step_log = << Entry("open", 0, 0, TRUE),
                            Entry("count", 0, 0, FALSE) >>

\* A probe of a file that does not open has returned.
C10_Witness ==
    /\ pc = "record"
    /\ ~backend.opens /\ ~raised
    /\ Len(step_log) = 1

\* The probe is past the computation of its checkpoints.
PointsComputed ==
    pc \in { "a_point", "a_frame", "a_after" } /\ total_frames > 0

\* C11: for a positive frame count the checkpoint sequence is the set
\* { floor(total_frames * i / 20) : i in 0..19 } in strictly ascending order,
\* without duplicates, every value in [0, total_frames).
C11_CheckpointGeneration ==
    PointsComputed =>
        /\ Range(check_points) =
               { (total_frames * i) \div NumPoints : i \in 0..(NumPoints - 1) }
        /\ \A j \in 1..(Len(check_points) - 1) :
               check_points[j] < check_points[j + 1]
        /\ \A j \in 1..Len(check_points) :
               0 <= check_points[j] /\ check_points[j] < total_frames

\* The frame indices lo, lo+1, ..., hi-1 in ascending order.
Interval(lo, hi) == [ j \in 1..(hi - lo) |-> lo + j - 1 ]

\* The probe is inside the window of checkpoint check_points[ci].
InWindow == pc \in { "a_frame", "a_after" } /\ total_frames > 0

\* The frames of the attempt entries logged for the checkpoint at position n.
Tried(n) ==
    LET IsTry(e) == e.kind = "try" /\ e.n = n
        tries == SelectSeq(step_log, IsTry)
    IN  [ j \in 1..Len(tries) |-> tries[j].frame ]

\* C12: the frames attempted for a checkpoint c are drawn, in ascending
\* order, from [0, min(5, total_frames)) when c = 0, from
\* [max(0, total_frames-5), total_frames) when c = total_frames-1 and c # 0,
\* and from [max(0, c-2), min(c+3, total_frames)) otherwise; with 10 frames
\* the checkpoints 0, 9 and 5 give [0,5), [5,10) and [3,8).
C12_WindowPolicy ==
    InWindow =>
        LET c == check_points[ci]
            tf == total_frames
            window ==
                IF c = 0 THEN Interval(0, Min(5, tf))
                ELSE IF c = tf - 1 THEN Interval(Max(0, tf - 5), tf)
                ELSE Interval(Max(0, c - 2), Min(c + 3, tf))
            tried == Tried(ci)
        IN  /\ frames_to_check = window
            /\ Len(tried) <= Len(window)
            /\ tried = SubSeq(window, 1, Len(tried))
            /\ (tf = 10 /\ c = 0) => frames_to_check = << 0, 1, 2, 3, 4 >>
            /\ (tf = 10 /\ c = 9) => frames_to_check = << 5, 6, 7, 8, 9 >>
            /\ (tf = 10 /\ c = 5) => frames_to_check = << 3, 4, 5, 6, 7 >>

\* The probe of a video of 10 frames is through the window of its last
\* checkpoint, 9, which is also the last frame: frame 5 was attempted.
C12_Witness ==
    /\ pc = "a_after"
    /\ total_frames = 10
    /\ check_points[ci] = 9
    /\ frames_to_check = << 5, 6, 7, 8, 9 >>
    /\ Tried(ci) = << 5 >>

\* The attempt entries of the step log.
Attempts ==
    LET IsTry(e) == e.kind = "try" IN SelectSeq(step_log, IsTry)

\* C17: for a positive frame count every checkpoint's window holds between 1
\* and 5 frame indices, all inside [0, total_frames), the checkpoint among
\* them; a probe makes at most 20 x 5 = 100 decode attempts: at most 100
\* attempt entries, at most 100 seeks and 100 reads.
C17_CostBound ==
    /\ PointsComputed => Len(check_points) <= 20
    /\ InWindow =>
           /\ 1 <= Len(frames_to_check) /\ Len(frames_to_check) <= 5
           /\ \A j \in 1..Len(frames_to_check) :
                  0 <= frames_to_check[j] /\ frames_to_check[j] < total_frames
           /\ check_points[ci] \in Range(frames_to_check)
    /\ Len(Attempts) <= 100
    /\ calls <= 2 * 100

\* A probe has returned OK after 20 checkpoints with more than two attempts
\* a window on average.
C17_Witness ==
    /\ pc = "record"
    /\ error_type = 0
    /\ Len(check_points) = 20
    /\ Len(Attempts) > 40
    /\ calls = 2 * Len(Attempts)

\* The candidates a run has to probe, in discovery order: all of them, or
\* with --resume those that were not loaded from the progress record.
Remaining ==
    LET Left(f) == f \notin loaded
        found == get_video_files(tree)
    IN  IF resume THEN SelectSeq(found, Left) ELSE found

\* The probes of the run so far are those of the first remaining
\* candidates, one each, in discovery order.
ProbedInOrder == started = SubSeq(Remaining, 1, Len(started))

\* C13: a run that is not interrupted probes every remaining candidate
\* exactly once, in discovery order, whatever the classification of earlier
\* files, and ends finished: it never ends in another way, and when it has
\* ended every remaining candidate has been probed.
C13_RunCompletes ==
    /\ pc # "idle" => ProbedInOrder
    /\ pc \in { "done", "aborted" } => (pc = "done" /\ started = Remaining)

\* C14: a progress record is deleted only by the step that ends a run whose
\* loop has gone through the whole candidate list, every candidate probed
\* and recorded; and when a run has finished, the progress record of its
\* session does not exist.
C14_RecordLifetime ==
    /\ [](pc = "done" => ~progress[timestamp].exists)
    /\ [][\A t \in 0..MaxTime :
              (progress[t].exists /\ ~progress'[t].exists) =>
                  /\ t = timestamp
                  /\ pc = "loop" /\ pc' = "done"
                  /\ idx > Len(video_files)
                  /\ started = video_files
                  /\ { r[1] : r \in finished } = Range(video_files)]_vars

\* A run over two candidates has finished; its progress record, written
\* during the run, is gone.
C14_Witness ==
    /\ pc = "done"
    /\ Len(started) = 2
    /\ ~progress[timestamp].exists

\* The attempt entries logged for the checkpoint at position n.
TriesOf(n) ==
    LET IsTry(e) == e.kind = "try" /\ e.n = n IN SelectSeq(step_log, IsTry)

\* The probe has computed its checkpoints, and possibly ended since.
Sampling ==
    /\ pc \in { "a_point", "a_frame", "a_after", "a_finally", "record" }
    /\ check_points # <<>>

\* C15: the frames of a window are attempted in ascending order and none is
\* attempted after the first success; when the first frame of a window
\* succeeds the step log has exactly one attempt entry for that window, and
\* the probe is leaving the window or has moved on to a later checkpoint.
C15_EarlyExit ==
    Sampling =>
        \A n \in 1..Len(check_points) :
            LET tries == TriesOf(n)
                window == FramesToCheck(check_points[n], total_frames)
            IN  /\ Len(tries) <= Len(window)
                /\ \A j \in 1..Len(tries) : tries[j].frame = window[j]
                /\ \A j \in 1..(Len(tries) - 1) :
                       /\ tries[j].frame < tries[j + 1].frame
                       /\ ~tries[j].ok
                /\ (tries # <<>> /\ tries[1].ok) =>
                       /\ Len(tries) = 1
                       /\ (n < ci \/ (n = ci /\ pc = "a_after" /\ success))
                /\ n > ci => tries = <<>>

\* A probe has returned OK: in the first window the first frame failed and
\* the second succeeded; in a later window the first frame succeeded.
C15_Witness ==
    /\ pc = "record"
    /\ error_type = 0
    /\ Len(TriesOf(1)) = 2 /\ TriesOf(1)[2].ok
    /\ \E n \in 2..Len(check_points) :
           Len(TriesOf(n)) = 1 /\ TriesOf(n)[1].ok

\* Every frame of the window of the checkpoint at position n has been
\* attempted and has failed.
ExhaustedAt(n) ==
    LET window == FramesToCheck(check_points[n], total_frames)
    IN  /\ Len(TriesOf(n)) = Len(window)
        /\ \A j \in 1..Len(window) : ~TriesOf(n)[j].ok

\* C16: checkpoints are examined in ascending order, and once every frame
\* of one checkpoint's window has failed the probe goes to its end without
\* another seek or read: the probe stays at that checkpoint, no attempt is
\* logged for a later one, every seek and read made is that of a logged
\* attempt, the window is logged as failed once, and the probe returns
\* DecodeFailure (2).
C16_StopAtExhaustedWindow ==
    Sampling =>
        /\ \A j \in 1..(Len(check_points) - 1) :
               check_points[j] < check_points[j + 1]
        /\ \A j \in 1..(Len(Attempts) - 1) :
               Attempts[j].n <= Attempts[j + 1].n
        /\ \A n \in 1..Len(check_points) :
               ExhaustedAt(n) =>
                   /\ n = ci
                   /\ pc \in { "a_after", "a_finally", "record" }
                   /\ ~success
                   /\ \A j \in 1..Len(Attempts) : Attempts[j].n <= n
                   /\ calls = 2 * Len(Attempts)
                   /\ pc \in { "a_finally", "record" } =>
                          /\ error_type = 2
                          /\ Cardinality({ j \in 1..Len(step_log) :
                                               step_log[j].kind = "window" })
                                 = 1
                          /\ \E j \in 1..Len(step_log) :
                                 step_log[j] =
                                     Entry("window", 0, check_points[n],
                                           FALSE)

\* A probe has returned after the window of its second checkpoint was
\* exhausted; later checkpoints were left alone.
C16_Witness ==
    /\ pc = "record"
    /\ Len(check_points) > 2
    /\ ExhaustedAt(2)

\* A run is started that does not resume an older one.
NewRunStarts ==
    /\ pc \in { "idle", "done", "aborted", "killed" }
    /\ pc' = "loop"
    /\ ~resume'

\* C18: a run that is not the resumption of an older run uses a progress
\* record of its own: when it starts, no record exists under the name of
\* its session, and it loads nothing from an older run's record.
C18_SessionIsolation ==
    [][NewRunStarts =>
           /\ ~progress[timestamp'].exists
           /\ loaded' = {}]_vars

\* Path p has a line with classification e in one of the reports.
Reported(p, e) ==
    \E t \in 0..MaxTime : ReportLine(p, e) \in Range(reports[t].data)

\* C19: when a run was killed and a run resuming it has completed, every
\* candidate has been probed to a returned classification in one of the
\* runs, and every candidate that no probe classified OK has a report line.
C19_NoCandidateDropped ==
    (pc = "done" /\ resume /\ prior.valid) =>
        \A p \in Candidates :
            /\ p \in Completed
            /\ (\A r \in history : r[1] = p => r[2] # 0) =>
                   \E r \in history : r[1] = p /\ Reported(p, r[2])

\* C20: load_progress after save_progress(P) on the same record returns
\* exactly P, for every set P of paths; load_progress on a record that does
\* not exist returns the empty set.
C20_RoundTrip ==
    /\ pc = "rt_back" => loaded = processed_files
    /\ (pc = "rt_read" /\ ~progress[timestamp].exists) => loaded = {}

====
